---- MODULE Spec2Model ----
(***************************************************************************)
(* GoogleDriveReader (llama_index/readers/google/drive/base.py) as a state *)
(* machine: one load_data call on a constructed reader, stepping through   *)
(* _get_credentials, the recursive _get_fileids_meta, the per-file         *)
(* _download_file and the extraction in _load_data_fileids_meta.           *)
(* The Drive service, the OAuth endpoints, the disk and                    *)
(* SimpleDirectoryReader are the environment: every call to them may fail. *)
(***************************************************************************)
EXTENDS Integers, Sequences, FiniteSets, TLC

\* ------------------------------------------------------------------ bounds
\* Largest page the provider serves (the page size is chosen in 1..MaxPageSize).
MaxPageSize == 3
\* Entries of the local list `items` the model keeps; a longer list is not
\* tracked further (only a pagination loop that never ends gets there).
MaxItems == 4
\* Documents the extraction collaborator produces for one staged file.
MaxDocsPerFile == 2

\* ------------------------------------------------------------ Python values
None == "None"
NoneList == [none |-> TRUE, val |-> <<>>]
NonePath == <<>>

SomeList(v) == [none |-> FALSE, val |-> v]

Range(s) == {s[i] : i \in 1..Len(s)}

\* Python truthiness of a tuple or list: empty is false, anything else true.
Truthy(t) == Len(t) > 0

\* Python truthiness of an Optional[str]: None and "" are false.
TruthyStr(s) == s # None /\ s # ""

\* ------------------------------------------------------- program constants
folder_mime_type == "application/vnd.google-apps.folder"

GDOC == "application/vnd.google-apps.document"
GSHEET == "application/vnd.google-apps.spreadsheet"
GSLIDES == "application/vnd.google-apps.presentation"
PDF == "application/pdf"
TXT == "text/plain"

_mimetypes ==
    (GDOC :> [mimetype |-> "application/vnd.openxmlformats-officedocument.wordprocessingml.document",
              extension |-> ".docx"])
    @@ (GSHEET :> [mimetype |-> "application/vnd.openxmlformats-officedocument.spreadsheetml.sheet",
                   extension |-> ".xlsx"])
    @@ (GSLIDES :> [mimetype |-> "application/vnd.openxmlformats-officedocument.presentationml.presentation",
                    extension |-> ".pptx"])

\* The five try/except Exception boundaries.
CatchesNotInDownload(fn) ==
    fn \in {"_get_fileids_meta", "_load_data_fileids_meta",
            "_load_from_file_ids", "_load_from_folder"}

Catches(fn) ==
    fn \in {"_get_fileids_meta", "_download_file", "_load_data_fileids_meta",
            "_load_from_file_ids", "_load_from_folder"}

\* What each boundary logs (logger.error), and load_data's warning.
LogMessage(fn) ==
    CASE fn = "_get_fileids_meta" -> "An error occurred while getting fileids metadata"
      [] fn = "_download_file" -> "An error occurred while downloading file"
      [] fn = "_load_data_fileids_meta" -> "An error occurred while loading data from fileids meta"
      [] fn = "_load_from_file_ids" -> "An error occurred while loading with fileid"
      [] fn = "_load_from_folder" -> "An error occurred while loading from folder"

Warning == "Either 'folder_id' or 'file_ids' must be provided."

\* The innermost function of a call chain (innermost first) whose except
\* clause catches an exception raised in chain[1]; load_data has none.
RECURSIVE Handler(_)
Handler(chain) ==
    IF chain = <<>> THEN "uncaught"
    ELSE IF Catches(Head(chain)) THEN Head(chain)
    ELSE Handler(Tail(chain))

\* ------------------------------------------------- the provider (environment)
\* A Drive holding folder F = [a, S], S = [b, c, T], T = [d, e], and a
\* presentation p in a folder of its own.
Item(id, mime, name, hit) ==
    [id |-> id, mimeType |-> mime, name |-> name, matches |-> hit]

Children(folder) ==
    CASE folder = "F" -> << Item("a", PDF, "a.pdf", TRUE),
                            Item("S", folder_mime_type, "S", FALSE) >>
      [] folder = "S" -> << Item("b", GDOC, "b", TRUE),
                            Item("c", TXT, "c.txt", FALSE),
                            Item("T", folder_mime_type, "T", TRUE) >>
      [] folder = "T" -> << Item("d", PDF, "d.pdf", TRUE),
                            Item("e", GSHEET, "e", FALSE) >>
      [] folder = "P" -> << Item("p", GSLIDES, "p", TRUE) >>
      [] OTHER -> << >>

AllItems == Children("F") \o Children("S") \o Children("T") \o Children("P")

ItemOf(id) == CHOOSE it \in Range(AllItems) : it.id = id

\* What files().list / files().get return for an item: an item of a shared
\* drive carries "driveId" and no "owners".
Resource(it, drive) ==
    [id |-> it.id, name |-> it.name, mimeType |-> it.mimeType,
     createdTime |-> "t0", modifiedTime |-> "t1",
     driveId |-> drive,
     owners |-> IF drive = None THEN << [displayName |-> "owner"] >> ELSE << >>]

\* The provider's answer to q: the children of q.parent that satisfy the
\* mimeType clause (when the query has one) and the query-string clause.
Selected(q, it) ==
    /\ (q.has_mime => it.mimeType \in Range(q.mime))
    /\ (q.qs # None => (it.mimeType = folder_mime_type \/ it.matches))

Listing(q) == SelectSeq(Children(q.parent), LAMBDA it : Selected(q, it))

\* Continuation tokens: NoToken is "no nextPageToken"; token t asks for the
\* page that starts after t pages.
NoToken == 0

PageAt(listing, token, size) ==
    SubSeq(listing, token * size + 1,
           IF (token + 1) * size < Len(listing) THEN (token + 1) * size ELSE Len(listing))

NextPageToken(listing, token, size) ==
    IF (token + 1) * size < Len(listing) THEN token + 1 ELSE NoToken

\* --------------------------------------------------------------- the state
VARIABLES
    \* the reader (constructor arguments and attributes)
    is_cloud, _is_cloud, client_config, authorized_user_info,
    service_account_key, token_file, _creds,
    \* load_data's arguments; caller_mime_types is the list the caller passed,
    \* as it was at the call
    drive_id, folder_id, file_ids, mime_types, query_string, caller_mime_types,
    \* the provider's page size
    pageSize,
    \* control: where load_data is, the frames of _get_fileids_meta (top first),
    \* the value a finished frame returns to its caller
    pc, stack, ret,
    \* _load_from_folder / _load_from_file_ids: fileids_meta and the loop index
    fileids_meta, fi,
    \* _load_data_fileids_meta: the temporary directory, the files in it,
    \* the metadata dictionary, the loop index
    temp_dir, disk, metadata, di,
    \* load_data's outcome: "pending", "list", "None" or "raised", and the list
    returned, documents,
    \* observation: messages logged, functions in which an exception was
    \* raised, folders whose list call failed, kinds of remote call made, the
    \* last list request and the last _download_file call
    logs, failed, failed_lists, remoteCalls, last_list, last_download

vars == << is_cloud, _is_cloud, client_config, authorized_user_info,
           service_account_key, token_file, _creds,
           drive_id, folder_id, file_ids, mime_types, query_string,
           caller_mime_types, pageSize, pc, stack, ret, fileids_meta, fi,
           temp_dir, disk, metadata, di, returned, documents,
           logs, failed, failed_lists, remoteCalls, last_list, last_download >>

reader == << is_cloud, _is_cloud, client_config, authorized_user_info,
             service_account_key >>
args == << drive_id, folder_id, file_ids, query_string, caller_mime_types, pageSize >>
observed == << failed_lists >>
assembler == << temp_dir, disk, metadata, di >>

\* ------------------------------------------------------------------- Init
NoDownload == [called |-> FALSE, fileid |-> None, filename |-> NonePath,
               mimeType |-> None, request |-> None, export_mime |-> None,
               result |-> NonePath]

NoList == [sent |-> FALSE, pageToken |-> NoToken, expected |-> NoToken]

UserInfos == {None, "valid", "expired_with_refresh_token", "expired"}

MimeFilters == { << >>, << PDF >>, << GDOC, folder_mime_type >> }

FileIdLists == { << >>, << "a", "p" >>, << "b", "e" >>, << "c", "c" >> }

\* __init__: the reader after construction (ValueError unless a client config
\* or a service account key is given), and the arguments of one load_data call.
Init ==
    /\ is_cloud \in BOOLEAN
    /\ _is_cloud = << is_cloud >>
    /\ client_config \in {None, "config"}
    /\ service_account_key \in {None, "key"}
    /\ ~(client_config = None /\ service_account_key = None)
    /\ authorized_user_info \in UserInfos
    /\ token_file = "unwritten"
    /\ _creds = None
    /\ drive_id \in {None, "D"}
    /\ folder_id \in {None, "F"}
    /\ file_ids \in FileIdLists
    /\ mime_types \in MimeFilters
    /\ caller_mime_types = mime_types
    /\ query_string \in {None, "name contains 'x'"}
    /\ pageSize \in 1..MaxPageSize
    /\ pc = "get_credentials"
    /\ stack = << >>
    /\ ret = [set |-> FALSE, none |-> FALSE, val |-> << >>]
    /\ fileids_meta = NoneList
    /\ fi = 1
    /\ temp_dir = [exists |-> FALSE, created |-> FALSE]
    /\ disk = << >>
    /\ metadata = << >>
    /\ di = 1
    /\ returned = "pending"
    /\ documents = << >>
    /\ logs = {}
    /\ failed = {}
    /\ failed_lists = {}
    /\ remoteCalls = {}
    /\ last_list = NoList
    /\ last_download = NoDownload

\* ------------------------------------------------------ _get_credentials
\* `if not self._is_cloud:` on the attribute __init__ stored.
SaveCredentials == ~Truthy(_is_cloud)

\* `self._creds = self._get_credentials()`: the whole of _get_credentials.
\* A refresh or a consent flow that fails raises out of load_data, which has
\* no try around this call.
GetCredentials ==
    /\ pc = "get_credentials"
    /\ UNCHANGED << reader, args, observed, mime_types, stack, ret, fileids_meta, fi,
                    assembler, documents, logs, last_list, last_download >>
    /\ \/ \* authorized user info that is still valid: used as it is
          /\ authorized_user_info = "valid"
          /\ _creds' = "user"
          /\ pc' = "dispatch"
          /\ UNCHANGED << token_file, returned, failed, remoteCalls >>
       \/ \* no user info, a service account key: returned at once
          /\ authorized_user_info = None
          /\ service_account_key # None
          /\ _creds' = "service_account"
          /\ pc' = "dispatch"
          /\ UNCHANGED << token_file, returned, failed, remoteCalls >>
       \/ \* expired with a refresh token: creds.refresh(Request())
          /\ authorized_user_info = "expired_with_refresh_token"
          /\ remoteCalls' = remoteCalls \cup {"refresh"}
          /\ \E ok \in BOOLEAN :
                IF ok
                THEN /\ _creds' = "user"
                     /\ token_file' = IF SaveCredentials THEN "written" ELSE token_file
                     /\ pc' = "dispatch"
                     /\ UNCHANGED << returned, failed >>
                ELSE /\ pc' = "raised"
                     /\ returned' = "raised"
                     /\ failed' = failed \cup {"_get_credentials"}
                     /\ UNCHANGED << _creds, token_file >>
       \/ \* no usable credential: InstalledAppFlow ... run_local_server
          /\ \/ authorized_user_info = "expired"
             \/ authorized_user_info = None /\ service_account_key = None
          /\ IF client_config = None
             THEN \* from_client_config(None) raises before any request
                  /\ pc' = "raised"
                  /\ returned' = "raised"
                  /\ failed' = failed \cup {"_get_credentials"}
                  /\ UNCHANGED << _creds, token_file, remoteCalls >>
             ELSE /\ remoteCalls' = remoteCalls \cup {"consent"}
                  /\ \E ok \in BOOLEAN :
                        IF ok
                        THEN /\ _creds' = "user"
                             /\ token_file' = IF SaveCredentials THEN "written"
                                              ELSE token_file
                             /\ pc' = "dispatch"
                             /\ UNCHANGED << returned, failed >>
                        ELSE /\ pc' = "raised"
                             /\ returned' = "raised"
                             /\ failed' = failed \cup {"_get_credentials"}
                             /\ UNCHANGED << _creds, token_file >>

\* ------------------------------------------------------------- load_data
NoQuery == [parent |-> None, has_mime |-> FALSE, mime |-> << >>, qs |-> None]

NewFrame(folder) ==
    [folder_id |-> folder, phase |-> "entry", query |-> NoQuery, items |-> << >>,
     page_token |-> NoToken, i |-> 1, fileids_meta |-> << >>]

NoReturn == [set |-> FALSE, none |-> FALSE, val |-> << >>]

\* `if folder_id: ... elif file_ids: ... else:`
SelectModeNoElse ==
    IF TruthyStr(folder_id) THEN "folder" ELSE "file_ids"

SelectMode ==
    IF TruthyStr(folder_id) THEN "folder"
    ELSE IF Truthy(file_ids) THEN "file_ids"
    ELSE "none"

\* The function load_data calls, which calls the others.
LoadFrom == IF TruthyStr(folder_id) THEN "_load_from_folder" ELSE "_load_from_file_ids"

Dispatch ==
    /\ pc = "dispatch"
    /\ UNCHANGED << reader, args, observed, mime_types, token_file, _creds, ret, assembler,
                    failed, remoteCalls, last_list, last_download >>
    /\ \/ /\ SelectMode = "folder"
          /\ pc' = "load_from_folder"
          /\ stack' = << NewFrame(folder_id) >>
          /\ UNCHANGED << fileids_meta, fi, returned, documents, logs >>
       \/ /\ SelectMode = "file_ids"
          /\ pc' = "load_from_file_ids"
          /\ fileids_meta' = SomeList(<< >>)
          /\ fi' = 1
          /\ UNCHANGED << stack, returned, documents, logs >>
       \/ /\ SelectMode = "none"
          /\ logs' = logs \cup {Warning}
          /\ returned' = "list"
          /\ documents' = << >>
          /\ pc' = "done"
          /\ UNCHANGED << stack, fileids_meta, fi >>

\* ------------------------------------------------- unwinding an exception
\* Leaving `with tempfile.TemporaryDirectory()`: the directory is removed,
\* whether the block ends normally or by an exception.
TemporaryDirectoryExitNoFinally(td, exc) ==
    IF exc THEN td ELSE [td EXCEPT !.exists = FALSE]

TemporaryDirectoryExit(td, exc) == [td EXCEPT !.exists = FALSE]

\* An exception caught by h, a function further out than the one running
\* ("uncaught": by none): every frame in between is left, h logs and returns
\* None, and so does every caller up to load_data.
Abort(h, lg, fl, td) ==
    /\ logs' = (IF h = "uncaught" THEN lg ELSE lg \cup {LogMessage(h)})
    /\ failed' = fl
    /\ stack' = << >>
    /\ ret' = NoReturn
    /\ temp_dir' = IF td.exists THEN TemporaryDirectoryExit(td, TRUE) ELSE td
    /\ disk' = IF temp_dir'.exists THEN disk ELSE << >>
    /\ metadata' = << >>
    /\ di' = di
    /\ documents' = << >>
    /\ pc' = IF h = "uncaught" THEN "raised" ELSE "done"
    /\ returned' = IF h = "uncaught" THEN "raised" ELSE "None"

\* ----------------------------------------------------- _get_fileids_meta
\* `if folder_mime_type not in mime_types: mime_types.append(folder_mime_type)`
\* on the list object the caller passed.
KeepRecursivenessDropped(mt) == mt

KeepRecursiveness(mt) ==
    IF folder_mime_type \notin Range(mt) THEN Append(mt, folder_mime_type) ELSE mt

\* The query string built for folder: "('<folder>' in parents)", then
\* " and (mimeType='..' or ..)" when mime_types is given, then
\* " and ((mimeType='<folder type>') or (<query_string>))" when query_string is.
BuildQuery(folder, mt, qs) ==
    [parent |-> folder,
     has_mime |-> Truthy(mt),
     mime |-> IF Truthy(mt) THEN mt ELSE << >>,
     qs |-> IF TruthyStr(qs) THEN qs ELSE None]

\* The pageToken argument of service.files().list(...): the call passes q,
\* the drive arguments and fields, and no pageToken.
ListPageToken(page_token) == NoToken

\* items.extend(...), for as many entries as the model keeps.
Extend(items, page) ==
    IF Len(items) + Len(page) <= MaxItems THEN items \o page ELSE items

\* `author`: "Shared Drive" for an item that carries driveId, else the first
\* owner's display name.
Author(res) ==
    IF res.driveId # None THEN "Shared Drive" ELSE res.owners[1].displayName

FileMeta(res) ==
    << res.id, Author(res), res.name, res.mimeType, res.createdTime, res.modifiedTime >>

Top == Head(stack)

SetTop(f) == << f >> \o Tail(stack)

\* The call chain of the running _get_fileids_meta frame, innermost first.
EnumChain ==
    [k \in 1..Len(stack) |-> "_get_fileids_meta"] \o << "_load_from_folder", "load_data" >>

\* An exception raised in the running frame: its own except logs it and the
\* frame returns None to its caller.
RaiseInFrame ==
    LET h == Handler(EnumChain) IN
    IF h = "_get_fileids_meta"
    THEN /\ logs' = logs \cup {LogMessage(h)}
         /\ failed' = failed \cup {"_get_fileids_meta"}
         /\ stack' = Tail(stack)
         /\ ret' = [set |-> TRUE, none |-> TRUE, val |-> << >>]
         /\ UNCHANGED << pc, returned, documents, assembler >>
    ELSE Abort(h, logs, failed \cup {"_get_fileids_meta"}, temp_dir)

\* Folder mode, up to the pagination loop: the query is built, the folder
\* type joining the caller's mime_types when it is not in it.
EnumEntry ==
    /\ pc = "load_from_folder"
    /\ stack # << >>
    /\ Top.phase = "entry"
    /\ mime_types' = IF Truthy(mime_types) THEN KeepRecursiveness(mime_types)
                     ELSE mime_types
    /\ stack' = SetTop([Top EXCEPT !.phase = "paging",
                                   !.query = BuildQuery(Top.folder_id, mime_types',
                                                        query_string)])
    /\ UNCHANGED << reader, args, observed, token_file, _creds, pc, ret, fileids_meta, fi,
                    assembler, returned, documents, logs, failed, remoteCalls,
                    last_list, last_download >>

\* One pass of `while True`, first half: service.files().list(...).execute()
\* is sent.
ListRequest ==
    /\ pc = "load_from_folder"
    /\ stack # << >>
    /\ Top.phase = "paging"
    /\ last_list' = [sent |-> TRUE, pageToken |-> ListPageToken(Top.page_token),
                     expected |-> Top.page_token]
    /\ remoteCalls' = remoteCalls \cup {"list"}
    /\ stack' = SetTop([Top EXCEPT !.phase = "listing"])
    /\ UNCHANGED << reader, args, observed, mime_types, token_file, _creds, pc, ret,
                    fileids_meta, fi, assembler, returned, documents, logs,
                    failed, last_download >>

\* Second half: the provider answers with the page the request's token
\* names, or the call fails.
ListResponse ==
    /\ pc = "load_from_folder"
    /\ stack # << >>
    /\ Top.phase = "listing"
    /\ UNCHANGED << reader, args, mime_types, token_file, _creds, fileids_meta,
                    fi, remoteCalls, last_list, last_download >>
    /\ \/ LET listing == Listing(Top.query)
              files == PageAt(listing, last_list.pageToken, pageSize)
              page_token == NextPageToken(listing, last_list.pageToken, pageSize)
              results == [k \in 1..Len(files) |-> Resource(files[k], drive_id)]
          IN /\ stack' = SetTop([Top EXCEPT
                                   !.items = Extend(Top.items, results),
                                   !.page_token = page_token,
                                   !.phase = IF page_token = NoToken THEN "items"
                                             ELSE "paging"])
             /\ UNCHANGED << pc, ret, assembler, returned, documents, logs, failed,
                             failed_lists >>
       \/ /\ failed_lists' = failed_lists \cup {Top.folder_id}
          /\ RaiseInFrame

\* One pass of `for item in items`: a folder starts the recursive call, any
\* other item adds its metadata tuple.
ProcessItem ==
    /\ pc = "load_from_folder"
    /\ stack # << >>
    /\ Top.phase = "items"
    /\ Top.i <= Len(Top.items)
    /\ LET item == Top.items[Top.i] IN
       IF item.mimeType = folder_mime_type
       THEN stack' = << NewFrame(item.id), [Top EXCEPT !.phase = "await"] >>
                     \o Tail(stack)
       ELSE stack' = SetTop([Top EXCEPT
                               !.fileids_meta = Append(Top.fileids_meta, FileMeta(item)),
                               !.i = Top.i + 1])
    /\ UNCHANGED << reader, args, observed, mime_types, token_file, _creds, pc, ret,
                    fileids_meta, fi, assembler, returned, documents, logs, failed,
                    remoteCalls, last_list, last_download >>

\* `return fileids_meta` once the items are exhausted.
FolderReturn ==
    /\ pc = "load_from_folder"
    /\ stack # << >>
    /\ Top.phase = "items"
    /\ Top.i > Len(Top.items)
    /\ ret' = [set |-> TRUE, none |-> FALSE, val |-> Top.fileids_meta]
    /\ stack' = Tail(stack)
    /\ UNCHANGED << reader, args, observed, mime_types, token_file, _creds, pc,
                    fileids_meta, fi, assembler, returned, documents, logs, failed,
                    remoteCalls, last_list, last_download >>

\* `fileids_meta.extend(self._get_fileids_meta(...))` in the calling frame:
\* extending by None is a TypeError raised in that frame.
ExtendReturn ==
    /\ pc = "load_from_folder"
    /\ stack # << >>
    /\ Top.phase = "await"
    /\ ret.set
    /\ UNCHANGED << reader, args, observed, mime_types, token_file, _creds, fileids_meta,
                    fi, remoteCalls, last_list, last_download >>
    /\ IF ret.none
       THEN RaiseInFrame
       ELSE /\ stack' = SetTop([Top EXCEPT
                                  !.fileids_meta = Top.fileids_meta \o ret.val,
                                  !.i = Top.i + 1,
                                  !.phase = "items"])
            /\ ret' = NoReturn
            /\ UNCHANGED << pc, assembler, returned, documents, logs, failed >>

\* _load_from_folder: `fileids_meta = self._get_fileids_meta(...)`, then
\* the call of _load_data_fileids_meta.
LoadFromFolder ==
    /\ pc = "load_from_folder"
    /\ stack = << >>
    /\ ret.set
    /\ fileids_meta' = [none |-> ret.none, val |-> ret.val]
    /\ ret' = NoReturn
    /\ pc' = "load_data_fileids_meta"
    /\ UNCHANGED << reader, args, observed, mime_types, token_file, _creds, stack, fi,
                    assembler, returned, documents, logs, failed, remoteCalls,
                    last_list, last_download >>

\* _load_from_file_ids, one pass of `for file_id in file_ids`: the whole
\* single-file _get_fileids_meta (files().get, one tuple) and the extend.
\* A failed get is caught in _get_fileids_meta, which returns None; extending
\* by None raises TypeError in _load_from_file_ids.
GetFileMeta ==
    /\ pc = "load_from_file_ids"
    /\ fi <= Len(file_ids)
    /\ remoteCalls' = remoteCalls \cup {"get"}
    /\ UNCHANGED << reader, args, observed, mime_types, token_file, _creds, last_list,
                    last_download >>
    /\ \/ /\ fileids_meta' = SomeList(Append(fileids_meta.val,
                                 FileMeta(Resource(ItemOf(file_ids[fi]), drive_id))))
          /\ fi' = fi + 1
          /\ UNCHANGED << pc, stack, ret, assembler, returned, documents, logs,
                          failed >>
       \/ LET chain == << "_get_fileids_meta", "_load_from_file_ids", "load_data" >>
              h == Handler(chain)
          IN /\ UNCHANGED << fileids_meta, fi >>
             /\ IF h = "_get_fileids_meta"
                THEN Abort(Handler(Tail(chain)),
                           logs \cup {LogMessage(h)},
                           failed \cup {"_get_fileids_meta", "_load_from_file_ids"},
                           temp_dir)
                ELSE Abort(h, logs, failed \cup {"_get_fileids_meta"}, temp_dir)

\* _load_from_file_ids after the loop: the call of _load_data_fileids_meta.
LoadFromFileIds ==
    /\ pc = "load_from_file_ids"
    /\ fi > Len(file_ids)
    /\ pc' = "load_data_fileids_meta"
    /\ UNCHANGED << reader, args, observed, mime_types, token_file, _creds, stack, ret,
                    fileids_meta, fi, assembler, returned, documents, logs, failed,
                    remoteCalls, last_list, last_download >>

\* --------------------------------------------------------- _download_file
\* `new_file_name`: filename + the mapped extension for a type in _mimetypes,
\* filename itself for any other type. A path is the sequence of its parts.
NewFileNameNoExtension(mimeType, filename) == filename

NewFileName(mimeType, filename) ==
    IF mimeType \in DOMAIN _mimetypes
    THEN filename \o << _mimetypes[mimeType].extension >>
    ELSE filename

\* `request`: export_media with the mapped type, or get_media.
DownloadRequest(fileid, mimeType) ==
    IF mimeType \in DOMAIN _mimetypes
    THEN [kind |-> "export_media", fileId |-> fileid,
          mimeType |-> _mimetypes[mimeType].mimetype]
    ELSE [kind |-> "get_media", fileId |-> fileid, mimeType |-> None]

\* How one _download_file call ends: the metadata get fails, the chunked
\* download fails, the file is opened and the write fails, or all succeed.
DownloadOutcomes == {"ok", "get_fails", "download_fails", "write_fails"}

\* ------------------------------------------------- _load_data_fileids_meta
\* os.path.join(temp_dir, fileid)
FilePath(fileid) == << "temp_dir", fileid >>

\* The dictionary stored under final_filepath.
MetadataDict(fileid_meta) ==
    ("file id" :> fileid_meta[1]) @@ ("author" :> fileid_meta[2])
    @@ ("file name" :> fileid_meta[3]) @@ ("mime type" :> fileid_meta[4])
    @@ ("created at" :> fileid_meta[5]) @@ ("modified at" :> fileid_meta[6])

\* The call chain inside _load_data_fileids_meta, innermost first.
AssemblerChain == << "_load_data_fileids_meta", LoadFrom, "load_data" >>

\* Entering the try and the with block: the temporary directory is created.
\* Iterating a fileids_meta that is None raises TypeError at once.
AssembleStart ==
    /\ pc = "load_data_fileids_meta"
    /\ UNCHANGED << reader, args, observed, mime_types, token_file, _creds, fileids_meta,
                    fi, remoteCalls, last_list, last_download >>
    /\ LET td == [exists |-> TRUE, created |-> TRUE] IN
       IF fileids_meta.none
       THEN Abort(Handler(AssemblerChain), logs,
                  failed \cup {"_load_data_fileids_meta"}, td)
       ELSE /\ temp_dir' = td
            /\ disk' = << >>
            /\ metadata' = << >>
            /\ di' = 1
            /\ pc' = "download"
            /\ UNCHANGED << stack, ret, returned, documents, logs, failed >>

\* One pass of `for fileid_meta in fileids_meta`: the whole _download_file
\* call and the metadata entry under the path it returned (None when its
\* except caught a failure).
DownloadFile ==
    /\ pc = "download"
    /\ di <= Len(fileids_meta.val)
    /\ UNCHANGED << reader, args, observed, mime_types, token_file, _creds, fileids_meta,
                    fi, last_list >>
    /\ \E outcome \in DownloadOutcomes :
       LET fileid_meta == fileids_meta.val[di]
           fileid == fileid_meta[1]
           filepath == FilePath(fileid)
           mimeType == ItemOf(fileid).mimeType
           request == DownloadRequest(fileid, mimeType)
           new_file_name == NewFileName(mimeType, filepath)
           requested == outcome # "get_fails"
           final_filepath == IF outcome = "ok" THEN new_file_name ELSE NonePath
           written == outcome \in {"ok", "write_fails"}
           files == IF written /\ new_file_name \notin Range(disk)
                    THEN Append(disk, new_file_name) ELSE disk
           h == Handler(<< "_download_file" >> \o AssemblerChain)
       IN /\ remoteCalls' = remoteCalls \cup {"get"}
                            \cup (IF requested THEN {request.kind} ELSE {})
          /\ last_download' =
                [called |-> TRUE, fileid |-> fileid, filename |-> filepath,
                 mimeType |-> mimeType,
                 request |-> IF requested THEN request.kind ELSE None,
                 export_mime |-> IF requested THEN request.mimeType ELSE None,
                 result |-> final_filepath]
          /\ IF outcome = "ok" \/ h = "_download_file"
             THEN /\ disk' = files
                  /\ metadata' = (final_filepath :> MetadataDict(fileid_meta))
                                 @@ metadata
                  /\ di' = di + 1
                  /\ logs' = IF outcome = "ok" THEN logs
                             ELSE logs \cup {LogMessage("_download_file")}
                  /\ failed' = IF outcome = "ok" THEN failed
                               ELSE failed \cup {"_download_file"}
                  /\ UNCHANGED << pc, stack, ret, temp_dir, returned, documents >>
             ELSE Abort(h, logs, failed \cup {"_download_file"}, temp_dir)

\* SimpleDirectoryReader(temp_dir, file_metadata=get_metadata).load_data():
\* for each file of the directory, count documents carrying
\* get_metadata(path) and an identifier of their own.
RECURSIVE LoadDocuments(_, _, _)
LoadDocuments(files, count, md) ==
    IF files = << >> THEN << >>
    ELSE [part \in 1..count |->
            [id_ |-> "generated", metadata |-> md[Head(files)], part |-> part]]
         \o LoadDocuments(Tail(files), count, md)

\* `doc.id_ = doc.metadata.get("file id", doc.id_)`
SetIdKept(doc) == doc

SetId(doc) ==
    [doc EXCEPT !.id_ = IF "file id" \in DOMAIN doc.metadata
                        THEN doc.metadata["file id"] ELSE doc.id_]

\* After the loop: the extraction, the identifiers, the end of the with
\* block and `return documents`. The collaborator may raise; get_metadata
\* raises KeyError for a file of the directory that has no entry.
Extract ==
    /\ pc = "download"
    /\ di > Len(fileids_meta.val)
    /\ UNCHANGED << reader, args, observed, mime_types, token_file, _creds, fileids_meta,
                    fi, remoteCalls, last_list, last_download >>
    /\ \E raises \in BOOLEAN, count \in 1..MaxDocsPerFile :
       IF raises \/ \E path \in Range(disk) : path \notin DOMAIN metadata
       THEN Abort(Handler(AssemblerChain), logs,
                  failed \cup {"_load_data_fileids_meta"}, temp_dir)
       ELSE LET loaded == LoadDocuments(disk, count, metadata) IN
            /\ documents' = [k \in 1..Len(loaded) |-> SetId(loaded[k])]
            /\ temp_dir' = TemporaryDirectoryExit(temp_dir, FALSE)
            /\ disk' = << >>
            /\ metadata' = << >>
            /\ returned' = "list"
            /\ pc' = "done"
            /\ UNCHANGED << stack, ret, di, logs, failed >>

\* ------------------------------------------------------------------ Spec
Next ==
    \/ GetCredentials
    \/ Dispatch
    \/ EnumEntry
    \/ ListRequest
    \/ ListResponse
    \/ ProcessItem
    \/ FolderReturn
    \/ ExtendReturn
    \/ LoadFromFolder
    \/ GetFileMeta
    \/ LoadFromFileIds
    \/ AssembleStart
    \/ DownloadFile
    \/ Extract

Spec == Init /\ [][Next]_vars

\* The program is single-threaded and every call returns: it keeps stepping
\* for as long as it has a step to take.
FairSpec == Spec /\ WF_vars(Next)

\* ---------------------------------------------------------------- claims
IsPrefix(s, t) == Len(s) <= Len(t) /\ SubSeq(t, 1, Len(s)) = s

Ids(metas) == {metas[k][1] : k \in 1..Len(metas)}

Finished == pc \in {"done", "raised"}

NoSelector == ~TruthyStr(folder_id) /\ ~Truthy(file_ids)

\* The files below a folder, at any depth (the tree has three levels).
RECURSIVE Descendants(_, _)
Descendants(folder, depth) ==
    LET kids == Range(Children(folder)) IN
    {it \in kids : it.mimeType # folder_mime_type}
    \cup (IF depth = 0 THEN {}
          ELSE UNION {Descendants(it.id, depth - 1) :
                        it \in {k \in kids : k.mimeType = folder_mime_type}})

\* C1: every Document load_data's assembler returns carries the id of exactly
\* one FileMeta of the list it was given, whatever that list repeats, whichever
\* downloads failed and however many documents a file yields.
C1_DocumentIdFromInput ==
    returned = "list" =>
        \A k \in 1..Len(documents) :
            Cardinality({m \in Range(fileids_meta.val) : m[1] = documents[k].id_}) = 1

\* C1's case: a list that repeats an id, a download that failed, and two
\* documents for one file.
C1_Witness ==
    /\ returned = "list"
    /\ Len(documents) >= 2
    /\ documents[1].id_ = documents[2].id_
    /\ "_download_file" \in failed
    /\ \E j, k \in 1..Len(fileids_meta.val) :
          j # k /\ fileids_meta.val[j][1] = fileids_meta.val[k][1]

\* C2 (as claimed): each list request after the first carries the token the
\* previous page returned, and the items accumulated for a folder are the
\* pages of its listing, in order, each item once.
C2_PagesConcatenated ==
    /\ last_list.sent => last_list.pageToken = last_list.expected
    /\ \A k \in 1..Len(stack) :
          LET f == stack[k]
              listing == Listing(f.query)
              all == [j \in 1..Len(listing) |-> Resource(listing[j], drive_id)]
          IN f.phase # "entry" =>
                /\ IsPrefix(f.items, all)
                /\ f.phase \in {"items", "await"} => f.items = all

\* C3 (as claimed): when the list call of a subfolder failed and that of the
\* queried folder did not, the enumeration still returns the metadata of the
\* files listed in the queried folder.
C3_SiblingsSurvive ==
    ( /\ pc = "load_data_fileids_meta"
      /\ SelectMode = "folder"
      /\ failed_lists # {}
      /\ folder_id \notin failed_lists )
    => /\ ~fileids_meta.none
       /\ \A it \in Range(Listing(BuildQuery(folder_id, mime_types, query_string))) :
             it.mimeType # folder_mime_type => it.id \in Ids(fileids_meta.val)

\* C4: with a MIME filter, a finished folder enumeration returns exactly the
\* files below the folder, at every depth, whose type is in the caller's
\* filter (and that satisfy the query string): none of another type, no
\* folder, and none missed because its folder is not in the filter.
C4_MimeFilter ==
    ( /\ SelectMode = "folder"
      /\ Truthy(caller_mime_types)
      /\ pc \in {"load_data_fileids_meta", "download", "done"}
      /\ ~fileids_meta.none )
    => /\ \A m \in Range(fileids_meta.val) :
             m[4] \in Range(caller_mime_types) /\ m[4] # folder_mime_type
       /\ Ids(fileids_meta.val) =
             {it.id : it \in {d \in Descendants(folder_id, 2) :
                                /\ d.mimeType \in Range(caller_mime_types)
                                /\ TruthyStr(query_string) => d.matches}}

\* C4's case: the filter [application/pdf] on F returns a (in F) and d (two
\* folders down), and neither b, c nor e.
C4_Witness ==
    /\ SelectMode = "folder"
    /\ caller_mime_types = << PDF >>
    /\ query_string = None
    /\ pc = "done"
    /\ ~fileids_meta.none
    /\ Ids(fileids_meta.val) = {"a", "d"}

\* C5 (as claimed): without folder id and file ids load_data returns [] with
\* a warning and makes no remote call at all.
C5_NoRemoteCall ==
    NoSelector =>
        /\ remoteCalls = {}
        /\ Finished => returned = "list" /\ documents = << >> /\ Warning \in logs

\* C5 (amended): without folder id and file ids load_data makes no list, get
\* or download call; _get_credentials still runs first, so a refresh or a
\* consent flow may be requested, and once it succeeds load_data returns []
\* with a warning.
C5_NoDriveCall ==
    NoSelector =>
        /\ remoteCalls \subseteq {"refresh", "consent"}
        /\ pc = "done" => returned = "list" /\ documents = << >> /\ Warning \in logs
        /\ pc = "raised" => failed = {"_get_credentials"}

\* C5's case: no selector, the credential was refreshed, [] was returned.
C5_Witness ==
    /\ NoSelector
    /\ pc = "done"
    /\ remoteCalls = {"refresh"}
    /\ returned = "list"

\* C6: once _load_data_fileids_meta has finished, the temporary directory it
\* created is gone: the directory exists only while the assembler runs.
C6_ScratchRemoved == temp_dir.exists => pc = "download"

\* C6's case: a download failed, then the extraction raised.
C6_Witness ==
    /\ pc = "done"
    /\ temp_dir.created
    /\ ~temp_dir.exists
    /\ {"_download_file", "_load_data_fileids_meta"} \subseteq failed

\* C7: a document, spreadsheet or presentation is requested as an export
\* with the Office type and lands at the base path plus .docx, .xlsx or .pptx;
\* any other file is requested as raw media and lands at the base path.
C7_ExportMapping ==
    last_download.called =>
        LET d == last_download
            Native(mime, export, ext) ==
                d.mimeType = mime =>
                    /\ d.request # None =>
                          d.request = "export_media" /\ d.export_mime = export
                    /\ d.result # NonePath => d.result = d.filename \o << ext >>
        IN /\ Native("application/vnd.google-apps.document",
                     "application/vnd.openxmlformats-officedocument.wordprocessingml.document",
                     ".docx")
           /\ Native("application/vnd.google-apps.spreadsheet",
                     "application/vnd.openxmlformats-officedocument.spreadsheetml.sheet",
                     ".xlsx")
           /\ Native("application/vnd.google-apps.presentation",
                     "application/vnd.openxmlformats-officedocument.presentationml.presentation",
                     ".pptx")
           /\ d.mimeType \notin {"application/vnd.google-apps.document",
                                 "application/vnd.google-apps.spreadsheet",
                                 "application/vnd.google-apps.presentation"} =>
                 /\ d.request # None => d.request = "get_media"
                 /\ d.result # NonePath => d.result = d.filename
           /\ d.result = NonePath => "_download_file" \in failed

\* C7's case: a presentation was exported and stored under <id>.pptx.
C7_Witness ==
    /\ last_download.called
    /\ last_download.mimeType = GSLIDES
    /\ last_download.request = "export_media"
    /\ last_download.result = << "temp_dir", "p", ".pptx" >>

\* C8 (as claimed): the token file is written exactly when the reader was
\* built with is_cloud false and this call refreshed the user credential or
\* obtained one by the consent flow.
C8_TokenSavedUnlessCloud ==
    pc # "get_credentials" =>
        (token_file = "written"
            <=> /\ ~is_cloud
                /\ _creds = "user"
                /\ remoteCalls \cap {"refresh", "consent"} # {})

\* C9 (as claimed): after the credentials, no failure leaves load_data, and a
\* load_data in which one occurred ends with an empty or absent result.
C9_FailureEndsEmpty ==
    /\ pc = "raised" => failed = {"_get_credentials"}
    /\ (pc = "done" /\ failed # {}) =>
          \/ returned = "None"
          \/ returned = "list" /\ documents = << >>

\* C9 (amended): after the credentials, no failure leaves load_data: each is
\* caught and logged by the function it is raised in. A failure in the
\* enumeration or in the assembly makes load_data return None; a failed
\* download makes _download_file alone return None, and load_data goes on to
\* return the documents of the files that were staged.
C9_CaughtWhereRaised ==
    /\ pc = "raised" => failed = {"_get_credentials"}
    /\ \A fn \in failed \ {"_get_credentials"} : LogMessage(fn) \in logs
    /\ logs \subseteq {Warning} \cup {LogMessage(fn) : fn \in failed \ {"_get_credentials"}}
    /\ (pc = "done" /\ failed \ {"_download_file"} # {}) => returned = "None"
    /\ (pc = "done" /\ failed \subseteq {"_download_file"}) => returned = "list"

\* C9's case: a download failed and load_data returned documents all the same.
C9_Witness ==
    /\ pc = "done"
    /\ failed = {"_download_file"}
    /\ returned = "list"
    /\ Len(documents) > 0

\* C10 (as claimed): the enumeration leaves every pagination loop, so
\* load_data comes to an end.
C10_Terminates == <>Finished

\* C11 (as claimed): when load_data has ended, the list the caller passed as
\* mime_types holds the elements it held at the call.
C11_MimeTypesUnchanged == Finished => mime_types = caller_mime_types

====
